---- MODULE Spec2Model ----
(***************************************************************************)
(* The batch pipeline of the HTML-to-Markdown tool:                        *)
(* HTMLToMarkdownBatchProcessor (html-to-markdown-batch.service) and the   *)
(* conversion functions it calls (html-to-markdown.service).               *)
(*                                                                         *)
(* JavaScript runs one synchronous section at a time.  processFile holds   *)
(* no await, so a whole window (batch.map(id => this.processFile(id)))    *)
(* runs in one synchronous section, record after record; processAll        *)
(* suspends only at `await Promise.all(...)`, between two windows.  The    *)
(* variable cur names the run that owns the synchronous section (0: none); *)
(* calls from outside are taken only while cur = 0.  The variable calls    *)
(* counts the processAll calls a caller has made in a row without          *)
(* awaiting (see SpecTwice); it stays 0 where each call stands alone.  The *)
(* variable output holds what an addFiles or export call has handed to its *)
(* caller and to the outside (see SpecAdd); it is NoOutput elsewhere.      *)
(***************************************************************************)
EXTENDS Integers, Sequences, FiniteSets, TLC

\* Bounds of the model.
MaxFiles == 3
MaxK == 2
MaxAdd == 2

\* constructor default (batchOptions.maxConcurrent)
DefaultMaxConcurrent == 3

VARIABLES files, nextId, isProcessing, batchOptions, throwing, runs, cur, calls, output

vars == <<files, nextId, isProcessing, batchOptions, throwing, runs, cur, calls, output>>

Ids == 1..MaxFiles

\* ProcessedFile.error is optional: undefined until a failure is recorded.
Undefined == "undefined"

(***************************************************************************)
(* html-to-markdown.service: the conversion functions, on the contents the *)
(* model draws from.                                                       *)
(***************************************************************************)
Contents == {" ", "<h1>T</h1>", "<script>x</script>", "<bad>"}

\* !html.trim()
IsBlank(html) == html \in {"", " "}

\* doc.body.innerHTML once the script and style elements are removed
BodyWithoutScripts(html) ==
    IF html = "<script>x</script>" THEN "" ELSE html

SanitizeHTML(html) ==
    IF IsBlank(html) THEN "" ELSE BodyWithoutScripts(html)

\* turndownService.turndown(html) throws on input it cannot convert
TurndownThrows(html) == html = "<bad>"

Turndown(html) ==
    IF html = "<h1>T</h1>" THEN "# T" ELSE html

ConvertErrorMessage == "Conversion failed: malformed"

\* The outcome of convertHtmlToMarkdown: a value, or a thrown Error.
ConvertHtmlToMarkdown(html) ==
    IF IsBlank(html) THEN [ok |-> TRUE, value |-> "", message |-> ""]
    ELSE IF TurndownThrows(html)
         THEN [ok |-> FALSE, value |-> "", message |-> ConvertErrorMessage]
         ELSE [ok |-> TRUE, value |-> Turndown(html), message |-> ""]

(***************************************************************************)
(* Files offered to addFiles.                                              *)
(***************************************************************************)
FileNames == {[stem |-> "a", ext |-> ".html"], [stem |-> "b", ext |-> ".HTM"],
              [stem |-> "c", ext |-> ".txt"]}
MimeTypes == {"Text/HTML; charset=utf-8", "text/plain"}

ToLowerCase(s) ==
    CASE s = ".HTM" -> ".htm"
      [] s = "Text/HTML; charset=utf-8" -> "text/html; charset=utf-8"
      [] OTHER -> s

\* file.type.toLowerCase().includes(mime)
IncludesMime(t, mime) ==
    \/ t = mime
    \/ mime = "text/html" /\ t = "text/html; charset=utf-8"

\* the validation comparing the extension as written and ignoring the type
IsValidHtmlFileByExtension(file) ==
    file.name.ext \in {".html", ".htm"}

IsValidHtmlFile(file) ==
    LET hasValidExtension ==
            \E e \in {".html", ".htm"} : ToLowerCase(file.name.ext) = e
        hasValidMimeType ==
            \E m \in {"text/html", "application/xhtml+xml"} :
                IncludesMime(ToLowerCase(file.type), m)
    IN  hasValidExtension \/ hasValidMimeType

InputFiles == [name : FileNames, type : MimeTypes, text : Contents]

\* The lists of files a caller passes, up to MaxAdd files.
RECURSIVE ListsUpTo(_, _)
ListsUpTo(S, n) ==
    IF n = 0 THEN {<<>>}
    ELSE LET shorter == ListsUpTo(S, n - 1)
         IN  shorter \cup {Append(l, x) : l \in {s \in shorter : Len(s) = n - 1}, x \in S}

\* The files uploaded to a batch: HTML files of one name, of any content.
Uploads ==
    {file \in InputFiles :
        file.name = [stem |-> "a", ext |-> ".html"] /\ file.type = "text/plain"}

\* body.querySelectorAll('*').length of analyzeHTMLComplexity
ElementCount(html) ==
    IF IsBlank(html) \/ html = "<script>x</script>" THEN 0 ELSE 1

\* createProcessedFile (lines 661-679); n stands for the uuid and for the
\* clock reading of new Date(), both new at each call
CreateProcessedFile(file, n) ==
    [id |-> n, name |-> file.name,
     originalContent |-> file.text, markdownContent |-> "",
     status |-> "pending", error |-> Undefined,
     size |-> Len(file.text),
     complexity |-> [charCount |-> Len(file.text), tagCount |-> ElementCount(file.text),
                     isComplex |-> ElementCount(file.text) > 100 \/ Len(file.text) > 10000],
     createdAt |-> n]

(***************************************************************************)
(* The store: a Map keyed by id, iterated in insertion order.  Ids are     *)
(* uuids, never reused; the model numbers them in registration order, so   *)
(* insertion order is ascending id.                                        *)
(***************************************************************************)
RECURSIVE SortedSeq(_)
SortedSeq(S) ==
    IF S = {} THEN <<>>
    ELSE LET m == CHOOSE x \in S : \A y \in S : x <= y
         IN  <<m>> \o SortedSeq(S \ {m})

CountStatus(st) == Cardinality({id \in DOMAIN files : files[id].status = st})

\* The state getter (lines 495-515), given its failedFiles count.  progress
\* is the fraction completedFiles / totalFiles * 100, kept exact as num / den.
StateWith(failedFiles) ==
    LET completedFiles == CountStatus("completed")
        totalFiles == Cardinality(DOMAIN files)
    IN  [isProcessing |-> isProcessing,
         progress |-> IF totalFiles > 0
                      THEN [num |-> completedFiles * 100, den |-> totalFiles]
                      ELSE [num |-> 0, den |-> 1],
         totalFiles |-> totalFiles,
         completedFiles |-> completedFiles,
         failedFiles |-> failedFiles,
         pendingFiles |-> CountStatus("pending")]

\* the getter with failedFiles filtered on a status no record has
StateCountsFailedStatus == StateWith(CountStatus("failed"))

State == StateWith(CountStatus("error"))

\* p <= q for two progress fractions
ProgressLeq(p, q) == p.num * q.den <= q.num * p.den

(***************************************************************************)
(* Options.                                                                *)
(***************************************************************************)
OptionChoices == [maxConcurrent : 1..MaxK, autoRetry : BOOLEAN, stopOnError : BOOLEAN]

HandlerErrorMessage == "handler threw"

Event(kind, id, progress, msg) ==
    [kind |-> kind, id |-> id, num |-> progress.num, den |-> progress.den, msg |-> msg]

NoProgress == [num |-> 0, den |-> 1]

\* an event handed the record as it was while it was being processed
FileEventBeforeUpdate(kind, file, id, msg) ==
    [kind |-> kind, id |-> id, num |-> 0, den |-> 1, msg |-> msg,
     status |-> "processing", markdownContent |-> file.markdownContent,
     error |-> file.error]

\* onFileProcessed(file) and onFileFailed(file, msg): the handler is handed
\* the stored record, and sees it as it is at the call.
FileEvent(kind, file, id, msg) ==
    [kind |-> kind, id |-> id, num |-> 0, den |-> 1, msg |-> msg,
     status |-> file.status, markdownContent |-> file.markdownContent,
     error |-> file.error]

\* Nothing has reached the caller.
NoOutput == [op |-> "none"]

Init ==
    /\ files = <<>>
    /\ nextId = 1
    /\ isProcessing = FALSE
    /\ batchOptions = [maxConcurrent |-> DefaultMaxConcurrent, autoRetry |-> FALSE,
                       stopOnError |-> FALSE]
    /\ throwing = {}
    /\ runs = <<>>
    /\ cur = 0
    /\ calls = 0
    /\ output = NoOutput

\* No synchronous section is executing: a call from outside can be taken.
Idle == cur = 0

\* No processAll run has started and not finished.
NoRun == runs = <<>>

(***************************************************************************)
(* A processAll run.  fileIds is fixed when the run starts; i is the loop  *)
(* index, batch the current window, j the place in the window of the next  *)
(* processFile call.  pc is the place in processAll / processFile:         *)
(*   "empty"     before the progress event of the empty path (line 555)    *)
(*   "file"      before processFile(batch[j]) (line 579)                   *)
(*   "convert"   in processFile, status is processing (line 587)           *)
(*   "caught"    in processFile's catch after the handler threw (line 599) *)
(*   "await"     suspended at await Promise.all (line 562)                 *)
(*   "complete"  before onProcessingComplete (lines 556, 568)              *)
(*   "catch"     in processAll's catch (line 569)                          *)
(*   "finally"   in processAll's finally (line 572)                        *)
(* rejected / err: a processFile promise of the window has rejected.       *)
(* History kept for the properties: viaRetry and reset (the run was        *)
(* started by retryFailedFiles, which reset these ids), attempted (ids     *)
(* whose processFile passed its guard), failedAt (loop index of the window *)
(* that rejected), reRetried (retryFailedFiles was called during the run), *)
(* firstNew (the id of the first record registered after the start of the  *)
(* run, if any is), log (the events emitted by the run, in order).         *)
(***************************************************************************)
\* a pass that takes the failed records whatever autoRetry says
EligibleWithFailed(file, autoRetry) ==
    file.status \in {"pending", "error"}

\* a pass that leaves the failed records out whatever autoRetry says
EligiblePendingOnly(file, autoRetry) ==
    file.status = "pending"

\* a filter that only leaves out the records being processed
EligibleUnlessProcessing(file, autoRetry) ==
    file.status # "processing"

\* the filter of lines 548-551
Eligible(file, autoRetry) ==
    file.status = "pending" \/ (file.status = "error" /\ autoRetry)

\* An index of Array.prototype.slice: a negative index counts from the end,
\* and the result is kept within 0..len.
SliceIndex(n, len) ==
    IF n < 0 THEN (IF len + n < 0 THEN 0 ELSE len + n)
    ELSE IF n > len THEN len ELSE n

\* fileIds.slice(i, i + k)
Slice(s, i, k) ==
    SubSeq(s, SliceIndex(i, Len(s)) + 1, SliceIndex(i + k, Len(s)))

\* The loop index i as the model keeps it.  Every index below -len gives
\* the same window as -len (the empty one) and, like -len, is followed by
\* another such index when maxConcurrent is negative: the model keeps -len
\* for all of them.
LoopIndex(i, len) == IF i < -len THEN -len ELSE i

NewRun(ids, viaRetry, reset) ==
    [fileIds |-> ids, i |-> 0,
     batch |-> Slice(ids, 0, batchOptions.maxConcurrent), j |-> 1,
     pc |-> IF ids = <<>> THEN "empty" ELSE "file",
     rejected |-> FALSE, err |-> "",
     viaRetry |-> viaRetry, reset |-> reset, attempted |-> {},
     failedAt |-> -1, reRetried |-> FALSE, firstNew |-> nextId, log |-> <<>>]

\* processAll, lines 541-551: the guard, the flag, the eligible ids.  The
\* caller's reset (retryFailedFiles) has been applied to fs already.
StartRun(fs, viaRetry, reset) ==
    LET ids == SortedSeq({id \in DOMAIN fs : Eligible(fs[id], batchOptions.autoRetry)})
    IN  /\ isProcessing' = TRUE
        /\ runs' = Append(runs, NewRun(ids, viaRetry, reset))
        /\ cur' = Len(runs) + 1

\* processAll without its re-entrancy guard
ProcessAllNoGuard ==
    /\ cur = 0
    /\ StartRun(files, FALSE, {})
    /\ UNCHANGED <<files, nextId, batchOptions, throwing, calls, output>>

\* a processAll call without the guard
ProcessAllCallNoGuard ==
    /\ cur = 0
    /\ StartRun(files, FALSE, {})
    /\ UNCHANGED <<files, nextId, batchOptions, throwing>>

\* A processAll call, up to its first window (lines 541-551).
ProcessAllCall ==
    /\ Idle
    /\ IF isProcessing
       THEN UNCHANGED <<isProcessing, runs, cur>>
       ELSE StartRun(files, FALSE, {})
    /\ UNCHANGED <<files, nextId, batchOptions, throwing>>

ProcessAll ==
    /\ ProcessAllCall
    /\ UNCHANGED <<calls, output>>

\* A retryFailedFiles call, up to the first window of the run it starts
\* (lines 613-622), given the records its filter selects.
RetryCallWith(failedFiles) ==
    LET reset == [id \in DOMAIN files |->
                    IF id \in failedFiles
                    THEN [files[id] EXCEPT !.status = "pending", !.error = Undefined]
                    ELSE files[id]]
    IN  /\ Idle
        /\ files' = reset
        /\ IF isProcessing
           THEN /\ runs' = [r \in DOMAIN runs |-> [runs[r] EXCEPT !.reRetried = TRUE]]
                /\ UNCHANGED <<isProcessing, cur>>
           ELSE StartRun(reset, TRUE, failedFiles)
        /\ UNCHANGED <<nextId, batchOptions, throwing, calls>>

RetryWith(failedFiles) ==
    /\ RetryCallWith(failedFiles)
    /\ UNCHANGED output

\* retryFailedFiles resetting every record that is not pending
RetryResetsAll ==
    RetryWith({id \in DOMAIN files : files[id].status # "pending"})

RetryFailedFiles ==
    RetryWith({id \in DOMAIN files : files[id].status = "error"})

\* What follows a processFile call of the window: the next call of the map,
\* or the suspension at await Promise.all.
AfterFile(run) ==
    IF run.j < Len(run.batch)
    THEN [run EXCEPT !.j = run.j + 1, !.pc = "file"]
    ELSE [run EXCEPT !.pc = "await"]

SetRun(r, run) ==
    /\ runs' = [runs EXCEPT ![r] = run]
    /\ cur' = IF run.pc = "await" THEN 0 ELSE r

\* The promise of this processFile call rejects with message msg.
Reject(run, msg) ==
    IF run.rejected THEN run
    ELSE [run EXCEPT !.rejected = TRUE, !.err = msg, !.failedAt = run.i]

\* processFile, lines 579-585; over an empty window batch.map makes no
\* call and processAll suspends at await Promise.all([])
ProcessFileBegin(r) ==
    /\ cur = r
    /\ runs[r].pc = "file"
    /\ LET run == runs[r]
           id == IF run.batch = <<>> THEN 0 ELSE run.batch[run.j]
       IN  IF run.batch = <<>>
           THEN /\ SetRun(r, [run EXCEPT !.pc = "await"])
                /\ UNCHANGED files
           ELSE IF id \notin DOMAIN files \/ files[id].status = "processing"
           THEN /\ SetRun(r, AfterFile(run))
                /\ UNCHANGED files
           ELSE /\ files' = [files EXCEPT ![id].status = "processing"]
                /\ SetRun(r, [run EXCEPT !.pc = "convert",
                                         !.attempted = run.attempted \cup {id}])
    /\ UNCHANGED <<nextId, isProcessing, batchOptions, throwing, calls, output>>

\* processFile forgetting file.status = 'completed'
CompletedKeepsStatus(file, markdown) ==
    [file EXCEPT !.markdownContent = markdown]

\* processFile forgetting file.markdownContent = markdown
CompletedWithoutContent(file, markdown) ==
    [file EXCEPT !.status = "completed"]

\* The record after a conversion that returned markdown (lines 594-595).
Completed(file, markdown) ==
    [file EXCEPT !.markdownContent = markdown, !.status = "completed"]

\* the catch block dropping the content that failed to convert
FailedDropsContent(file, msg) ==
    [file EXCEPT !.status = "error", !.error = msg, !.originalContent = ""]

\* the catch block forgetting file.status = 'error'
FailedKeepsStatus(file, msg) ==
    [file EXCEPT !.error = msg]

\* The record in the catch block (lines 601-602).
Failed(file, msg) ==
    [file EXCEPT !.status = "error", !.error = msg]

\* a failure under stopOnError that keeps the rest of the window from
\* being dispatched
AfterCatchEndsWindow(run, id, msg) ==
    LET logged == [run EXCEPT !.log = Append(run.log,
                       FileEvent("onFileFailed", Failed(files[id], msg), id, msg))]
    IN  IF batchOptions.stopOnError
        THEN [Reject(logged, msg) EXCEPT !.pc = "await"]
        ELSE AfterFile(logged)

\* the catch block rethrowing whatever stopOnError says
AfterCatchAlwaysRethrows(run, id, msg) ==
    AfterFile(Reject([run EXCEPT !.log = Append(run.log,
                           FileEvent("onFileFailed", Failed(files[id], msg), id, msg))],
                     msg))

\* The catch block of processFile once the record is updated to
\* Failed(files[id], msg) (lines 605-609).
AfterCatch(run, id, msg) ==
    LET logged == [run EXCEPT !.log = Append(run.log,
                       FileEvent("onFileFailed", Failed(files[id], msg), id, msg))]
    IN  IF "onFileFailed" \in throwing
        THEN AfterFile(Reject(logged, HandlerErrorMessage))
        ELSE IF batchOptions.stopOnError
             THEN AfterFile(Reject(logged, msg))
             ELSE AfterFile(logged)

\* processFile, lines 587-610, when the record is in the store
ProcessFileConvert(r) ==
    /\ cur = r
    /\ runs[r].pc = "convert"
    /\ LET run == runs[r]
           id == run.batch[run.j]
           out == ConvertHtmlToMarkdown(SanitizeHTML(files[id].originalContent))
       IN  IF out.ok
           THEN /\ files' = [files EXCEPT ![id] = Completed(files[id], out.value)]
                /\ LET logged == [run EXCEPT !.log = Append(run.log,
                                     FileEvent("onFileProcessed",
                                               Completed(files[id], out.value), id, ""))]
                   IN  IF "onFileProcessed" \in throwing
                       THEN SetRun(r, [logged EXCEPT !.pc = "caught"])
                       ELSE SetRun(r, AfterFile(logged))
           ELSE /\ files' = [files EXCEPT ![id] = Failed(files[id], out.message)]
                /\ SetRun(r, AfterCatch(run, id, out.message))
    /\ UNCHANGED <<nextId, isProcessing, batchOptions, throwing, calls, output>>

\* processFile's catch block after onFileProcessed threw (lines 599-610)
ProcessFileCaught(r) ==
    /\ cur = r
    /\ runs[r].pc = "caught"
    /\ LET run == runs[r]
           id == run.batch[run.j]
       IN  /\ files' = [files EXCEPT ![id] = Failed(files[id], HandlerErrorMessage)]
           /\ SetRun(r, AfterCatch(run, id, HandlerErrorMessage))
    /\ UNCHANGED <<nextId, isProcessing, batchOptions, throwing, calls, output>>

\* The log keeps the first MaxLog events of a run: more than a run over
\* MaxFiles records emits when its loop ends.
MaxLog == 3 * MaxFiles + 3

\* An event emitted by processAll inside its try block: the handler returns
\* (the run goes on as after) or throws (the run enters the catch block).
Logged(run, kind, progress) ==
    IF Len(run.log) < MaxLog
    THEN [run EXCEPT !.log = Append(run.log, Event(kind, 0, progress, ""))]
    ELSE run

EmitInTry(run, kind, progress, after) ==
    IF kind \in throwing
    THEN [Reject(Logged(run, kind, progress), HandlerErrorMessage) EXCEPT !.pc = "catch"]
    ELSE after

\* a loop that reads the ids of the store again at each window
AdvanceOverStore(run, i) ==
    LET ids == SortedSeq(DOMAIN files)
    IN  IF i < Len(ids)
        THEN [run EXCEPT !.fileIds = ids, !.i = i,
                         !.batch = Slice(ids, i, batchOptions.maxConcurrent),
                         !.j = 1, !.pc = "file"]
        ELSE [run EXCEPT !.i = i, !.pc = "complete"]

\* a loop that ends after its first window
AdvanceEndsLoop(run, i) == [run EXCEPT !.i = i, !.pc = "complete"]

\* The loop step after the progress event (lines 560-561), i being the
\* advanced index: the next window, or the end of the loop.
Advance(run, i) ==
    IF i < Len(run.fileIds)
    THEN [run EXCEPT !.i = LoopIndex(i, Len(run.fileIds)),
                     !.batch = Slice(run.fileIds, i, batchOptions.maxConcurrent),
                     !.j = 1, !.pc = "file"]
    ELSE [run EXCEPT !.i = i, !.pc = "complete"]

\* the loop advancing one index too far
NextWindowSkips(run) == Advance(run, run.i + batchOptions.maxConcurrent + 1)

\* i += this.batchOptions.maxConcurrent
NextWindow(run) == Advance(run, run.i + batchOptions.maxConcurrent)

\* the empty path returning without onProcessingComplete
EmptyPathSkipsComplete(run) == [run EXCEPT !.pc = "finally"]

ToComplete(run) == [run EXCEPT !.pc = "complete"]

ToFinally(run) == [run EXCEPT !.pc = "finally"]

\* processAll settling the window with Promise.allSettled: a rejection is
\* not thrown
ResumeIgnoresRejection(r) ==
    /\ Idle
    /\ runs[r].pc = "await"
    /\ SetRun(r, EmitInTry(runs[r], "onProgressUpdate", State.progress,
                     NextWindow(Logged(runs[r], "onProgressUpdate", State.progress))))
    /\ UNCHANGED <<files, nextId, isProcessing, batchOptions, throwing, calls, output>>

\* processAll resumes after await Promise.all (lines 562-566): the rejection
\* of the window is thrown, or the progress event is emitted.
Resume(r) ==
    /\ Idle
    /\ runs[r].pc = "await"
    /\ LET run == runs[r]
       IN  IF run.rejected
           THEN SetRun(r, [run EXCEPT !.pc = "catch"])
           ELSE SetRun(r, EmitInTry(run, "onProgressUpdate", State.progress,
                     NextWindow(Logged(run, "onProgressUpdate", State.progress))))
    /\ UNCHANGED <<files, nextId, isProcessing, batchOptions, throwing, calls, output>>

\* the empty path, line 555
EmptyProgress(r) ==
    /\ cur = r
    /\ runs[r].pc = "empty"
    /\ SetRun(r, EmitInTry(runs[r], "onProgressUpdate", State.progress,
                     ToComplete(Logged(runs[r], "onProgressUpdate", State.progress))))
    /\ UNCHANGED <<files, nextId, isProcessing, batchOptions, throwing, calls, output>>

\* lines 556 and 568
Complete(r) ==
    /\ cur = r
    /\ runs[r].pc = "complete"
    /\ SetRun(r, EmitInTry(runs[r], "onProcessingComplete", NoProgress,
                     ToFinally(Logged(runs[r], "onProcessingComplete", NoProgress))))
    /\ UNCHANGED <<files, nextId, isProcessing, batchOptions, throwing, calls, output>>

\* the catch block, lines 569-571
Catch(r) ==
    /\ cur = r
    /\ runs[r].pc = "catch"
    /\ LET run == runs[r]
       IN  SetRun(r, [run EXCEPT !.pc = "finally",
                                 !.log = Append(run.log,
                                     Event("onProcessingError", 0, NoProgress, run.err))])
    /\ UNCHANGED <<files, nextId, isProcessing, batchOptions, throwing, calls, output>>

RemoveAt(s, r) == SubSeq(s, 1, r - 1) \o SubSeq(s, r + 1, Len(s))

\* processAll without the reset of the flag in finally
FinallyKeepsFlag(r) ==
    /\ cur = r
    /\ runs[r].pc = "finally"
    /\ runs' = RemoveAt(runs, r)
    /\ cur' = 0
    /\ UNCHANGED <<files, nextId, isProcessing, batchOptions, throwing, calls, output>>

\* the finally block, lines 572-575: the promise of processAll settles
Finally(r) ==
    /\ cur = r
    /\ runs[r].pc = "finally"
    /\ isProcessing' = FALSE
    /\ runs' = RemoveAt(runs, r)
    /\ cur' = 0
    /\ UNCHANGED <<files, nextId, batchOptions, throwing, calls, output>>

\* A step of run r, from a call of processAll to the settling of its promise.
RunStep(r) ==
    \/ ProcessFileBegin(r)
    \/ ProcessFileConvert(r)
    \/ ProcessFileCaught(r)
    \/ Resume(r)
    \/ EmptyProgress(r)
    \/ Complete(r)
    \/ Catch(r)
    \/ Finally(r)

(***************************************************************************)
(* The other operations of the processor.                                  *)
(***************************************************************************)
RECURSIVE Register(_, _, _)
\* the loop of addFiles (lines 525-535): invalid files are skipped
Register(fs, n, list) ==
    IF list = <<>> THEN [files |-> fs, nextId |-> n]
    ELSE IF ~IsValidHtmlFile(Head(list)) THEN Register(fs, n, Tail(list))
    ELSE Register([id \in DOMAIN fs \cup {n} |->
                       IF id = n THEN CreateProcessedFile(Head(list), n) ELSE fs[id]],
                  n + 1, Tail(list))

RECURSIVE Registered(_, _)
\* processedFiles, the list addFiles returns (lines 523, 532, 538); the
\* onFileAdded events carry the same records in the same order (line 534).
Registered(n, list) ==
    IF list = <<>> THEN <<>>
    ELSE IF ~IsValidHtmlFile(Head(list)) THEN Registered(n, Tail(list))
    ELSE <<[id |-> n, name |-> Head(list).name,
            record |-> CreateProcessedFile(Head(list), n)]>>
         \o Registered(n + 1, Tail(list))

ValidCount(list) == Cardinality({k \in DOMAIN list : IsValidHtmlFile(list[k])})

\* addFiles (lines 522-539), awaited by its caller
AddFilesCall(list) ==
    /\ Idle
    /\ nextId + ValidCount(list) <= MaxFiles + 1
    /\ LET reg == Register(files, nextId, list)
       IN  /\ files' = reg.files
           /\ nextId' = reg.nextId
    /\ UNCHANGED <<isProcessing, batchOptions, throwing, calls, runs, cur>>

AddFiles(list) ==
    /\ AddFilesCall(list)
    /\ UNCHANGED output

\* addFiles with what it hands out: the list it returns and the onFileAdded
\* events it has emitted.
AddFilesReturns(list) ==
    /\ output = NoOutput
    /\ AddFilesCall(list)
    /\ LET returned == Registered(nextId, list)
       IN  output' = [op |-> "addFiles", list |-> list, returned |-> returned,
                      events |-> [k \in DOMAIN returned |->
                                    Event("onFileAdded", returned[k].id, NoProgress, "")]]

\* The caller has taken what the call handed out.
CallerReceives ==
    /\ output # NoOutput
    /\ output' = NoOutput
    /\ UNCHANGED <<files, nextId, isProcessing, batchOptions, throwing, runs, cur, calls>>

\* lines 624-627
RemoveFile(id) ==
    /\ Idle
    /\ files' = [k \in DOMAIN files \ {id} |-> files[k]]
    /\ UNCHANGED <<nextId, isProcessing, batchOptions, throwing, calls, output, runs, cur>>

\* lines 629-634
ClearAll ==
    /\ Idle
    /\ files' = <<>>
    /\ isProcessing' = FALSE
    /\ UNCHANGED <<nextId, batchOptions, throwing, calls, output, runs, cur>>

\* lines 652-654
UpdateBatchOptions(o) ==
    /\ Idle
    /\ batchOptions' = o
    /\ UNCHANGED <<files, nextId, isProcessing, throwing, calls, output, runs, cur>>

\* setEventHandlers (lines 656-658): thrown is the set of the installed
\* handlers that throw when they are called.
SetEventHandlers(thrown) ==
    /\ Idle
    /\ throwing' = thrown
    /\ UNCHANGED <<files, nextId, isProcessing, batchOptions, runs, cur, calls, output>>

\* The records the getter hands out are the stored objects, so a caller can
\* edit one: the retry test replaces the content of a failed record by
\* content that converts (failedFile.originalContent = '<h1>Fixed Test</h1>').
FixContent(id) ==
    /\ Idle
    /\ id \in DOMAIN files
    /\ files[id].status = "error"
    /\ files[id].originalContent # "<h1>T</h1>"
    /\ files' = [files EXCEPT ![id].originalContent = "<h1>T</h1>"]
    /\ UNCHANGED <<nextId, isProcessing, batchOptions, throwing, calls, output, runs, cur>>

(***************************************************************************)
(* HTMLToMarkdownFileManager and getMarkdownFileName: the exports.  An     *)
(* export works on the list of records it is given.  File names are        *)
(* strings; an archive (JSZip) is a function from entry names to contents, *)
(* in which zip.file(name, ...) replaces the entry of that name.           *)
(***************************************************************************)
MaxExport == 2

ExportNames == {"report.html", "report.HTM", "notes.txt"}

Conventions == {"original", "timestamp", "indexed"}

\* Date.now() at the calls of getMarkdownFileName of one export
Clock == {1000, 1001}

\* The records a processor hands out, without their ids: converted content
\* is found on completed records only, and can be empty there.
ExportShapes ==
    {[name |-> n, status |-> st, markdownContent |-> ""] :
        n \in ExportNames, st \in {"pending", "error", "completed"}}
    \cup {[name |-> n, status |-> "completed", markdownContent |-> "# T"] : n \in ExportNames}

\* The lists an export is given: record k has id k.
ExportLists ==
    {[k \in DOMAIN l |-> [id |-> k, name |-> l[k].name, status |-> l[k].status,
                          markdownContent |-> l[k].markdownContent]] :
        l \in ListsUpTo(ExportShapes, MaxExport)}

\* The values of Date.now() at the places of a list: they never decrease.
ClockReadings ==
    {t \in [1..MaxExport -> Clock] : \A a, b \in 1..MaxExport : a <= b => t[a] <= t[b]}

LowerChar(c) ==
    CASE c = "H" -> "h" [] c = "T" -> "t" [] c = "M" -> "m" [] c = "L" -> "l"
      [] OTHER -> c

RECURSIVE LowerCase(_)
LowerCase(s) ==
    IF s = "" THEN ""
    ELSE LowerChar(SubSeq(s, 1, 1)) \o LowerCase(SubSeq(s, 2, Len(s)))

\* the name ends with the suffix, compared without regard to case
EndsWithIgnoringCase(name, suffix) ==
    /\ Len(name) >= Len(suffix)
    /\ LowerCase(SubSeq(name, Len(name) - Len(suffix) + 1, Len(name))) = suffix

DropLast(name, n) == SubSeq(name, 1, Len(name) - n)

\* originalName.replace(/\.(html|htm)$/i, '')
BaseName(originalName) ==
    IF EndsWithIgnoringCase(originalName, ".html") THEN DropLast(originalName, 5)
    ELSE IF EndsWithIgnoringCase(originalName, ".htm") THEN DropLast(originalName, 4)
    ELSE originalName

\* s.padStart(3, '0')
PadStart3(s) ==
    IF Len(s) >= 3 THEN s ELSE SubSeq("000", 1, 3 - Len(s)) \o s

\* The index argument left out (index?: number).
NoIndex == -1

\* a name that leaves the extension in place
MarkdownFileNameKeepsExtension(originalName, convention, index, now) ==
    originalName \o ".md"

\* getMarkdownFileName (lines 708-720); now is the value of Date.now()
GetMarkdownFileName(originalName, convention, index, now) ==
    LET baseName == BaseName(originalName)
    IN  CASE convention = "timestamp" -> baseName \o "_" \o ToString(now) \o ".md"
          [] convention = "indexed" ->
                baseName \o "_" \o PadStart3(ToString(IF index = NoIndex THEN 0 ELSE index))
                         \o ".md"
          [] OTHER -> baseName \o ".md"

EmptyZip == [n \in {} |-> ""]

\* zip.file(name, content)
ZipFile(zip, name, content) ==
    [n \in DOMAIN zip \cup {name} |-> IF n = name THEN content ELSE zip[n]]

\* an export that takes every completed record, whatever its content
ExportsEmptyContent(file) == file.status = "completed"

\* file.status === 'completed' && file.markdownContent
Exported(file) == file.status = "completed" /\ file.markdownContent # ""

RECURSIVE ZipFrom(_, _, _, _, _)
\* the loop of createZipFromFiles (lines 348-354) from place k (index k - 1)
ZipFrom(zip, list, k, convention, times) ==
    IF k > Len(list) THEN zip
    ELSE ZipFrom(IF Exported(list[k])
                 THEN ZipFile(zip, GetMarkdownFileName(list[k].name, convention, k - 1, times[k]),
                              list[k].markdownContent)
                 ELSE zip,
                 list, k + 1, convention, times)

\* the entries of the archive createZipFromFiles generates
CreateZipFromFiles(list, convention, times) ==
    ZipFrom(EmptyZip, list, 1, convention, times)

\* What a step of an export can throw: nothing, an Error with a message, or
\* a value that is not an Error.
Thrown == {[kind |-> "none", message |-> ""],
           [kind |-> "Error", message |-> "out of memory"],
           [kind |-> "value", message |-> ""]}

NothingThrown == [kind |-> "none", message |-> ""]

\* a cause that leaves out the message of the Error
CauseWithoutMessage(thrown) == "Unknown error"

\* error instanceof Error ? error.message : 'Unknown error'
Cause(thrown) ==
    IF thrown.kind = "Error" THEN thrown.message ELSE "Unknown error"

\* downloadZip (lines 365-372) on the records given, with what
\* zip.generateAsync and saveAs throw
ZipExport(op, given, selectedIds, list, zipName, convention, times, generateThrows, saveThrows) ==
    LET archive == CreateZipFromFiles(list, convention, times)
        generated == generateThrows = NothingThrown
        thrown == IF ~generated THEN generateThrows ELSE saveThrows
    IN  /\ output = NoOutput
        /\ output' = [op |-> op, files |-> given, selectedIds |-> selectedIds,
                      convention |-> convention, times |-> times,
                      generateThrows |-> generateThrows,
                      generated |-> generated,
                      archive |-> IF generated THEN archive ELSE EmptyZip,
                      saveCalls |-> IF generated
                                    THEN <<[filename |-> zipName, content |-> archive]>>
                                    ELSE <<>>,
                      error |-> IF thrown = NothingThrown THEN "none"
                                ELSE "Failed to create ZIP file: " \o Cause(thrown)]
        /\ UNCHANGED <<files, nextId, isProcessing, batchOptions, throwing, runs, cur, calls>>

DownloadZip(list, convention, times, generateThrows, saveThrows) ==
    ZipExport("downloadZip", list, {}, list, "html-to-markdown-batch.zip", convention, times,
              generateThrows, saveThrows)

\* files.filter(file => selectedIds.includes(file.id))
SelectedFiles(list, selectedIds) ==
    SelectSeq(list, LAMBDA file : file.id \in selectedIds)

\* downloadSelectedAsZip (lines 403-406)
DownloadSelectedAsZip(list, selectedIds, convention, times, generateThrows, saveThrows) ==
    ZipExport("downloadSelectedAsZip", list, selectedIds, SelectedFiles(list, selectedIds),
              "selected-files.zip", convention, times, generateThrows, saveThrows)

RECURSIVE SavesFrom(_, _, _, _, _)
\* the loop of downloadMultipleFiles (lines 384-395) from place k: the calls
\* of downloadFile, in order
SavesFrom(saves, list, k, convention, times) ==
    IF k > Len(list) THEN saves
    ELSE SavesFrom(IF Exported(list[k])
                   THEN Append(saves,
                               [filename |-> GetMarkdownFileName(list[k].name, convention,
                                                                 k - 1, times[k]),
                                content |-> list[k].markdownContent,
                                place |-> k])
                   ELSE saves,
                   list, k + 1, convention, times)

\* downloadMultipleFiles (lines 383-396); failAt is the call of downloadFile
\* in which saveAs throws (0: none), which ends the export
DownloadMultipleFiles(list, convention, times, failAt, saveThrows) ==
    LET saves == SavesFrom(<<>>, list, 1, convention, times)
        failed == failAt \in DOMAIN saves /\ saveThrows # NothingThrown
    IN  /\ output = NoOutput
        /\ failAt \in 0..Len(saves)
        /\ (failAt = 0) <=> (saveThrows = NothingThrown)
        /\ output' = [op |-> "downloadMultipleFiles", files |-> list,
                      convention |-> convention, times |-> times,
                      saveCalls |-> IF failed THEN SubSeq(saves, 1, failAt) ELSE saves,
                      error |-> IF failed
                                THEN "Failed to download file: " \o Cause(saveThrows)
                                ELSE "none"]
        /\ UNCHANGED <<files, nextId, isProcessing, batchOptions, throwing, runs, cur, calls>>

\* A call of getMarkdownFileName with its result.
NameFile(originalName, convention, index, now) ==
    /\ output = NoOutput
    /\ output' = [op |-> "getMarkdownFileName", originalName |-> originalName,
                  convention |-> convention, index |-> index, now |-> now,
                  result |-> GetMarkdownFileName(originalName, convention, index, now)]
    /\ UNCHANGED <<files, nextId, isProcessing, batchOptions, throwing, runs, cur, calls>>

(***************************************************************************)
(* Spec: the processor driven as the specification asks of its callers.    *)
(* processAll and retryFailedFiles are called at any time, also while a    *)
(* run is suspended between two windows.  addFiles, removeFile and         *)
(* clearAll are called only while no run is in flight (section 5), the     *)
(* options are changed between runs (section 3) and maxConcurrent is a     *)
(* positive integer.  The event handlers return normally: throwing stays   *)
(* empty.                                                                  *)
(***************************************************************************)
Next ==
    \/ \E list \in ListsUpTo(Uploads, MaxAdd) : NoRun /\ AddFiles(list)
    \/ \E id \in Ids : NoRun /\ RemoveFile(id)
    \/ NoRun /\ ClearAll
    \/ \E o \in OptionChoices : NoRun /\ UpdateBatchOptions(o)
    \/ ProcessAll
    \/ RetryFailedFiles
    \/ \E r \in DOMAIN runs : ProcessFileBegin(r)
    \/ \E r \in DOMAIN runs : ProcessFileConvert(r)
    \/ \E r \in DOMAIN runs : Resume(r)
    \/ \E r \in DOMAIN runs : EmptyProgress(r)
    \/ \E r \in DOMAIN runs : Complete(r)
    \/ \E r \in DOMAIN runs : Catch(r)
    \/ \E r \in DOMAIN runs : Finally(r)

Spec == Init /\ [][Next]_vars

\* The microtask queue runs every continuation that is ready: a run that can
\* take a step takes it.
RunSteps == \E r \in DOMAIN runs : RunStep(r)

FairSpec == Spec /\ WF_vars(RunSteps)

(***************************************************************************)
(* SpecThrow: as Spec, with event handlers that may throw.  The caller     *)
(* installs the handlers, of which at most one throws, before it adds the  *)
(* first file, as the component of html-to-markdown.vue does.              *)
(***************************************************************************)
ThrowChoices ==
    {{}} \cup {{k} : k \in {"onFileProcessed", "onFileFailed", "onProgressUpdate",
                           "onProcessingComplete", "onProcessingError"}}

NextThrow ==
    \/ Next
    \/ \E thrown \in ThrowChoices : nextId = 1 /\ NoRun /\ SetEventHandlers(thrown)
    \/ \E r \in DOMAIN runs : ProcessFileCaught(r)

SpecThrow == Init /\ [][NextThrow]_vars

FairSpecThrow == SpecThrow /\ WF_vars(RunSteps)

(***************************************************************************)
(* SpecEdit: as Spec, with a caller that between runs fixes the content of *)
(* a failed record before the record is attempted again.                   *)
(***************************************************************************)
NextEdit ==
    \/ Next
    \/ \E id \in Ids : NoRun /\ FixContent(id)

SpecEdit == Init /\ [][NextEdit]_vars

FairSpecEdit == SpecEdit /\ WF_vars(RunSteps)

(***************************************************************************)
(* SpecTwice: as Spec, with a caller that calls processAll twice in a row  *)
(* without awaiting the first call (processAll(); processAll();).  While   *)
(* the caller's section lasts (calls > 0) nothing runs but the synchronous *)
(* part of the calls; at its end (CallerYields) the suspended run can      *)
(* resume.                                                                 *)
(***************************************************************************)
FirstCall ==
    /\ calls = 0
    /\ ProcessAllCall
    /\ calls' = 1
    /\ UNCHANGED output

SecondCall ==
    /\ calls = 1
    /\ ProcessAllCall
    /\ calls' = 2
    /\ UNCHANGED output

CallerYields ==
    /\ calls > 0
    /\ Idle
    /\ calls' = 0
    /\ UNCHANGED <<files, nextId, isProcessing, batchOptions, throwing, runs, cur, output>>

\* The part of a processAll call that runs before the call returns.
SyncStep(r) ==
    \/ ProcessFileBegin(r)
    \/ ProcessFileConvert(r)
    \/ EmptyProgress(r)
    \/ Complete(r)
    \/ Catch(r)
    \/ Finally(r)

NextTwice ==
    \/ calls = 0 /\ Next
    \/ \E r \in DOMAIN runs : calls > 0 /\ SyncStep(r)
    \/ FirstCall
    \/ SecondCall
    \/ CallerYields

SpecTwice == Init /\ [][NextTwice]_vars

(***************************************************************************)
(* SpecAdd: addFiles observed with its return value and its events, on     *)
(* stores that earlier addFiles calls, runs under the default options and  *)
(* clearAll have left.                                                     *)
(***************************************************************************)
NextAdd ==
    \/ \E list \in ListsUpTo(InputFiles, MaxAdd) : NoRun /\ AddFilesReturns(list)
    \/ CallerReceives
    \/ output = NoOutput /\ ProcessAll
    \/ \E r \in DOMAIN runs : RunStep(r)
    \/ output = NoOutput /\ NoRun /\ ClearAll

SpecAdd == Init /\ [][NextAdd]_vars

(***************************************************************************)
(* SpecClear: a caller that calls clearAll at any time, also while a run is *)
(* suspended between two windows, that adds files whenever the processor   *)
(* reports that it is not processing, and that sets maxConcurrent between  *)
(* runs.                                                                   *)
(***************************************************************************)
NextClear ==
    \/ \E list \in ListsUpTo(Uploads, MaxAdd) : ~isProcessing /\ AddFiles(list)
    \/ \E k \in 1..MaxK :
           NoRun /\ UpdateBatchOptions([batchOptions EXCEPT !.maxConcurrent = k])
    \/ ClearAll
    \/ ProcessAll
    \/ \E r \in DOMAIN runs : ProcessFileBegin(r)
    \/ \E r \in DOMAIN runs : ProcessFileConvert(r)
    \/ \E r \in DOMAIN runs : Resume(r)
    \/ \E r \in DOMAIN runs : EmptyProgress(r)
    \/ \E r \in DOMAIN runs : Complete(r)
    \/ \E r \in DOMAIN runs : Finally(r)

SpecClear == Init /\ [][NextClear]_vars

(***************************************************************************)
(* SpecBoth: two processors started from the same store.  On a store that  *)
(* runs and a caller's edits of failed records have left, with no run in   *)
(* flight, the first processor calls retryFailedFiles() with autoRetry     *)
(* disabled; when its run has ended, output keeps its store (first) and    *)
(* the second processor takes the store of the start with autoRetry        *)
(* enabled and calls processAll().  The conversion function and the record *)
(* contents are the same for both.                                         *)
(***************************************************************************)
\* retryFailedFiles() on the first processor
RetryOnFirst ==
    /\ output = NoOutput
    /\ NoRun
    /\ ~batchOptions.autoRetry
    /\ RetryCallWith({id \in DOMAIN files : files[id].status = "error"})
    /\ output' = [op |-> "both", phase |-> "retryFailedFiles", start |-> files,
                  first |-> files]

\* The second processor: the store of the start, autoRetry enabled.
StartSecond ==
    /\ Idle /\ NoRun
    /\ output.op = "both" /\ output.phase = "retryFailedFiles"
    /\ output' = [output EXCEPT !.phase = "second", !.first = files]
    /\ files' = output.start
    /\ batchOptions' = [batchOptions EXCEPT !.autoRetry = TRUE]
    /\ UNCHANGED <<nextId, isProcessing, throwing, runs, cur, calls>>

\* processAll() on the second processor
ProcessAllOnSecond ==
    /\ output.op = "both" /\ output.phase = "second"
    /\ ProcessAllCall
    /\ output' = [output EXCEPT !.phase = "processAll"]
    /\ UNCHANGED calls

\* Both runs have ended.
BothEnded == output.op = "both" /\ output.phase = "processAll" /\ NoRun

NextBoth ==
    \/ \E list \in ListsUpTo(Uploads, MaxAdd) :
           output = NoOutput /\ NoRun /\ AddFiles(list)
    \/ \E o \in OptionChoices : output = NoOutput /\ NoRun /\ UpdateBatchOptions(o)
    \/ \E id \in Ids : output = NoOutput /\ NoRun /\ FixContent(id)
    \/ output = NoOutput /\ ProcessAll
    \/ RetryOnFirst
    \/ StartSecond
    \/ ProcessAllOnSecond
    \/ \E r \in DOMAIN runs : ProcessFileBegin(r)
    \/ \E r \in DOMAIN runs : ProcessFileConvert(r)
    \/ \E r \in DOMAIN runs : Resume(r)
    \/ \E r \in DOMAIN runs : EmptyProgress(r)
    \/ \E r \in DOMAIN runs : Complete(r)
    \/ \E r \in DOMAIN runs : Catch(r)
    \/ \E r \in DOMAIN runs : Finally(r)

SpecBoth == Init /\ [][NextBoth]_vars

(***************************************************************************)
(* SpecInFlight: as Spec, with a caller that also adds files while a run   *)
(* is suspended between two windows.                                       *)
(***************************************************************************)
NextInFlight ==
    \/ Next
    \/ \E list \in ListsUpTo(Uploads, MaxAdd) : ~NoRun /\ AddFiles(list)

SpecInFlight == Init /\ [][NextInFlight]_vars

(***************************************************************************)
(* SpecAnyK: a caller that gives updateBatchOptions any number as           *)
(* maxConcurrent, zero and negative numbers included, between runs.        *)
(***************************************************************************)
AnyConcurrency == {-1, 0} \cup (1..MaxK)

NextAnyK ==
    \/ \E list \in ListsUpTo(Uploads, MaxAdd) : NoRun /\ AddFiles(list)
    \/ \E k \in AnyConcurrency, stop \in BOOLEAN :
           NoRun /\ UpdateBatchOptions([batchOptions EXCEPT !.maxConcurrent = k,
                                                           !.stopOnError = stop])
    \/ ProcessAll
    \/ \E r \in DOMAIN runs : ProcessFileBegin(r)
    \/ \E r \in DOMAIN runs : ProcessFileConvert(r)
    \/ \E r \in DOMAIN runs : Resume(r)
    \/ \E r \in DOMAIN runs : EmptyProgress(r)
    \/ \E r \in DOMAIN runs : Complete(r)
    \/ \E r \in DOMAIN runs : Catch(r)
    \/ \E r \in DOMAIN runs : Finally(r)

SpecAnyK == Init /\ [][NextAnyK]_vars

FairSpecAnyK == SpecAnyK /\ WF_vars(RunSteps)

(***************************************************************************)
(* SpecExport: the exports and getMarkdownFileName, each call on a list of *)
(* records, a naming convention and clock readings drawn from the bounded  *)
(* sets, with the archive writer and the file saver failing or not.        *)
(***************************************************************************)
NextExport ==
    \/ /\ output = NoOutput
       /\ \E list \in ExportLists, convention \in Conventions, times \in ClockReadings,
             generateThrows \in Thrown, saveThrows \in Thrown :
              DownloadZip(list, convention, times, generateThrows, saveThrows)
    \/ /\ output = NoOutput
       /\ \E list \in ExportLists, selectedIds \in SUBSET (1..MaxExport),
             convention \in Conventions, times \in ClockReadings,
             generateThrows \in Thrown, saveThrows \in Thrown :
              DownloadSelectedAsZip(list, selectedIds, convention, times,
                                    generateThrows, saveThrows)
    \/ /\ output = NoOutput
       /\ \E list \in ExportLists, convention \in Conventions, times \in ClockReadings,
             failAt \in 0..MaxExport, saveThrows \in Thrown :
              DownloadMultipleFiles(list, convention, times, failAt, saveThrows)
    \/ /\ output = NoOutput
       /\ \E originalName \in ExportNames, convention \in Conventions,
             index \in {NoIndex} \cup (0..MaxExport), now \in Clock :
              NameFile(originalName, convention, index, now)
    \/ CallerReceives

SpecExport == Init /\ [][NextExport]_vars

(***************************************************************************)
(* Properties.                                                             *)
(***************************************************************************)
Run(r) == runs[r]

\* The window (0, 1, ...) of the place p (1, 2, ...) in fileIds.
WindowOf(p) == (p - 1) \div batchOptions.maxConcurrent

\* processFile has passed its guard for id in this run and has returned.
Finished(run, id) ==
    /\ id \in run.attempted
    /\ ~(run.pc \in {"convert", "caught"} /\ run.batch[run.j] = id)

Terminal(id) == files[id].status \in {"completed", "error"}

Kinds(run) == {run.log[n].kind : n \in DOMAIN run.log}

\* C1: at most one processAll run is active (started and not finished) at any
\* time, whatever the interleaving of processAll and retryFailedFiles calls:
\* a call that finds the in-flight flag set starts no second run.
C1_AtMostOneRun ==
    /\ Len(runs) <= 1
    /\ runs # <<>> => isProcessing

\* A retryFailedFiles call, and with it a processAll call, was made while a
\* run was suspended between two windows.
C1_Witness ==
    /\ Len(runs) = 1
    /\ Run(1).reRetried
    /\ Run(1).pc = "await"

\* C2: the number of records in processing never exceeds maxConcurrent.
C2_ConcurrencyBound ==
    CountStatus("processing") <= batchOptions.maxConcurrent

\* The second record of a window of two is in processing.
C2_Witness ==
    \E r \in DOMAIN runs :
        /\ Run(r).pc = "convert"
        /\ Len(Run(r).batch) = 2
        /\ Run(r).j = 2
        /\ CountStatus("processing") = 1

\* C3: windows are sequential: when processFile has started on a record of
\* a window, every record of every earlier window of the run has been
\* processed and has reached completed or error (it is pending again only
\* when a retryFailedFiles call has reset it since).
C3_WindowsSequential ==
    \A r \in DOMAIN runs :
        \A p, q \in DOMAIN Run(r).fileIds :
            (WindowOf(p) < WindowOf(q) /\ Run(r).fileIds[q] \in Run(r).attempted)
            => /\ Finished(Run(r), Run(r).fileIds[p])
               /\ \/ Terminal(Run(r).fileIds[p])
                  \/ /\ Run(r).reRetried
                     /\ files[Run(r).fileIds[p]].status = "pending"

\* A record of the second window is in processing, the first window held two.
C3_Witness ==
    \E r \in DOMAIN runs :
        /\ Run(r).pc = "convert"
        /\ Run(r).i = 2
        /\ batchOptions.maxConcurrent = 2
        /\ Terminal(Run(r).fileIds[1]) /\ Terminal(Run(r).fileIds[2])

\* The states in which the aggregate can be read: outside the synchronous
\* sections, and in the event handlers.  Between the two status assignments
\* of processFile (lines 584 and 595 / 601) no handler runs.
Observable == \A r \in DOMAIN runs : Run(r).pc # "convert"

\* C4: wherever the aggregate state can be read, completedFiles +
\* failedFiles + pendingFiles = totalFiles; in every state the three counts
\* and the number of processing records add up to totalFiles.
C4_CountsAddUp ==
    /\ State.completedFiles + State.failedFiles + State.pendingFiles
            + CountStatus("processing") = State.totalFiles
    /\ Observable =>
            State.completedFiles + State.failedFiles + State.pendingFiles = State.totalFiles

\* Inside the handler of the first record's event, in a window of two, with
\* a completed and a failed record in the store.
C4_Witness ==
    \E r \in DOMAIN runs :
        /\ Run(r).pc = "file"
        /\ Run(r).j = 2
        /\ State.completedFiles >= 1
        /\ State.failedFiles >= 1
        /\ State.pendingFiles >= 1

ProgressEvents(run) ==
    {n \in DOMAIN run.log : run.log[n].kind = "onProgressUpdate"}

\* C5: within one processAll call progress never decreases: not from one
\* state of the run to the next, and not from one onProgressUpdate value to
\* a later one.
C5_ProgressMonotone ==
    /\ [](\A r \in DOMAIN runs : \A m, n \in ProgressEvents(Run(r)) :
            m < n => ProgressLeq(Run(r).log[m], Run(r).log[n]))
    /\ [][(runs # <<>> /\ runs' # <<>>) => ProgressLeq(State.progress, State.progress')]_vars

\* A run has emitted two progress values, the second greater than the first.
C5_Witness ==
    \E r \in DOMAIN runs : \E m, n \in ProgressEvents(Run(r)) :
        /\ m < n
        /\ ~ProgressLeq(Run(r).log[n], Run(r).log[m])

\* The records a run started by retryFailedFiles has reset.
ResetRecords(run) == IF run.viaRetry THEN run.reset ELSE {}

\* C6 as stated: when a retryFailedFiles call resolves (the run it started
\* is in its finally block), every record that was in error when it was
\* called is completed or in error.
C6_RetryLeavesNonePending ==
    \A r \in DOMAIN runs :
        Run(r).pc = "finally" =>
            \A id \in ResetRecords(Run(r)) \cap DOMAIN files : Terminal(id)

\* C6 amended: a retryFailedFiles call made while no run is in flight starts
\* a run; when that run was not aborted and no further retryFailedFiles call
\* was made during it, every record the call has reset is completed or in
\* error with the converter's message when the call resolves; every run a
\* retryFailedFiles call starts ends; and a retryFailedFiles call made while
\* a run is in flight starts no run and leaves every record that was in
\* error pending.
C6_RetryAttemptsAll ==
    /\ [](\A r \in DOMAIN runs :
            (Run(r).pc = "finally" /\ ~Run(r).rejected /\ ~Run(r).reRetried) =>
                \A id \in ResetRecords(Run(r)) :
                    /\ id \in DOMAIN files
                    /\ Finished(Run(r), id)
                    /\ Terminal(id)
                    /\ files[id].status = "error" => files[id].error = ConvertErrorMessage)
    /\ ((\E r \in DOMAIN runs : Run(r).viaRetry) ~> NoRun)
    /\ [][(isProcessing /\ Idle /\ files' # files) =>
            /\ Len(runs') = Len(runs)
            /\ \A id \in DOMAIN files :
                   files[id].status = "error" =>
                       id \in DOMAIN files' /\ files'[id].status = "pending"]_vars

\* A retryFailedFiles call resolves after two windows in which every record
\* it had reset has failed again.
C6_Witness ==
    \E r \in DOMAIN runs :
        /\ Run(r).pc = "finally"
        /\ ~Run(r).rejected /\ ~Run(r).reRetried
        /\ Cardinality(ResetRecords(Run(r))) >= 2
        /\ Run(r).i >= 2
        /\ batchOptions.maxConcurrent = 1
        /\ \A id \in ResetRecords(Run(r)) : files[id].status = "error"

\* The places of fileIds in the windows after the window that rejected.
LaterPlaces(run) ==
    {p \in DOMAIN run.fileIds : p > run.failedAt + batchOptions.maxConcurrent}

\* C7 as stated: when a failure under stopOnError has aborted a run, every
\* record of every later window is pending, onProcessingComplete was not
\* emitted and onProcessingError was.
C7_LaterWindowsPending ==
    \A r \in DOMAIN runs :
        (Run(r).pc = "finally" /\ Run(r).rejected) =>
            /\ \A p \in LaterPlaces(Run(r)) :
                   files[Run(r).fileIds[p]].status = "pending"
            /\ "onProcessingComplete" \notin Kinds(Run(r))
            /\ "onProcessingError" \in Kinds(Run(r))

\* C7 amended: a conversion failure under stopOnError aborts the run, and
\* when it has, no record of a later window has been attempted: each is
\* still pending or, when it was eligible through autoRetry, still in error;
\* onProcessingComplete was not emitted for the run and onProcessingError
\* was, with the failure's message.
C7_LaterWindowsUntouched ==
    \A r \in DOMAIN runs :
        /\ (Run(r).pc = "finally" /\ batchOptions.stopOnError
                /\ "onFileFailed" \in Kinds(Run(r))) => Run(r).rejected
        /\ (Run(r).pc = "finally" /\ Run(r).rejected) =>
               /\ batchOptions.stopOnError
               /\ \A p \in LaterPlaces(Run(r)) :
                      /\ Run(r).fileIds[p] \notin Run(r).attempted
                      /\ files[Run(r).fileIds[p]].status \in
                           {"pending"} \cup (IF batchOptions.autoRetry THEN {"error"} ELSE {})
               /\ "onProcessingComplete" \notin Kinds(Run(r))
               /\ Run(r).log[Len(Run(r).log)] =
                      Event("onProcessingError", 0, NoProgress, ConvertErrorMessage)

\* A run over two windows is aborted by a failure in the first; the record
\* of the second window was eligible through autoRetry and is still in error.
C7_Witness ==
    \E r \in DOMAIN runs :
        /\ Run(r).pc = "finally"
        /\ Run(r).rejected
        /\ Run(r).failedAt = 0
        /\ \E p \in LaterPlaces(Run(r)) : files[Run(r).fileIds[p]].status = "error"

\* C8: every run that sets the in-flight flag clears it again, and the flag
\* is clear whenever no run is in flight, so the guard rejects no call made
\* after the run has resolved.
C8_FlagCleared ==
    /\ [](NoRun => ~isProcessing)
    /\ (isProcessing ~> ~isProcessing)

\* A run is in its finally block, the flag still set, after a handler threw
\* in the try block of processAll with stopOnError disabled.
C8_Witness ==
    \E r \in DOMAIN runs :
        /\ Run(r).pc = "finally"
        /\ Run(r).rejected
        /\ Run(r).err = HandlerErrorMessage
        /\ ~batchOptions.stopOnError
        /\ isProcessing

C11_ErrorIffStatusError ==
    Observable =>
        \A id \in DOMAIN files :
            files[id].error # Undefined <=> files[id].status = "error"

\* C11, the part that holds: a record in error has its error field set, a
\* pending record has none, and a record a run started by retryFailedFiles
\* has reset and completed has none.
C11_ErrorSetInError ==
    /\ \A id \in DOMAIN files :
           /\ files[id].status = "error" => files[id].error # Undefined
           /\ files[id].status = "pending" => files[id].error = Undefined
    /\ \A r \in DOMAIN runs : \A id \in ResetRecords(Run(r)) \cap DOMAIN files :
           files[id].status = "completed" => files[id].error = Undefined

\* A record that failed, was fixed and was reset by retryFailedFiles is
\* completed with its error field cleared.
C11_Witness ==
    \E r \in DOMAIN runs : \E id \in ResetRecords(Run(r)) \cap DOMAIN files :
        /\ Run(r).pc = "finally"
        /\ files[id].status = "completed"
        /\ files[id].error = Undefined

\* No record of fs is eligible for a run under the current options.
NoneEligible(fs) ==
    \A id \in DOMAIN fs : ~Eligible(fs[id], batchOptions.autoRetry)

\* The run that owns the synchronous section is on the empty path.
OnEmptyPath(rs, c) == c # 0 /\ rs[c].fileIds = <<>>

\* C12: a processAll call made when no record is eligible (for a call made
\* by retryFailedFiles: once it has reset the failed records) takes the
\* empty path and only then; on that path no record changes, the run is never
\* suspended, it emits one onProgressUpdate with the current progress and
\* then one onProcessingComplete and nothing else, and it ends with the
\* in-flight flag false.
C12_EmptyRunIsNoOp ==
    /\ [](\A r \in DOMAIN runs :
            Run(r).fileIds = <<>> =>
                /\ cur = r
                /\ Run(r).pc \in {"empty", "complete", "finally"}
                /\ Run(r).pc = "empty" => Run(r).log = <<>>
                /\ Run(r).pc = "complete" =>
                       Run(r).log = <<Event("onProgressUpdate", 0, State.progress, "")>>
                /\ Run(r).pc = "finally" =>
                       Run(r).log = <<Event("onProgressUpdate", 0, State.progress, ""),
                                      Event("onProcessingComplete", 0, NoProgress, "")>>)
    /\ [][/\ Len(runs') > Len(runs) =>
                (runs'[Len(runs')].fileIds = <<>> <=> NoneEligible(files'))
          /\ (OnEmptyPath(runs', cur') \/ OnEmptyPath(runs, cur)) => files' = files
          /\ (OnEmptyPath(runs, cur) /\ runs[cur].pc = "finally") =>
                (~isProcessing' /\ runs' = <<>>)]_vars

\* A run on the empty path has emitted its two events, with completed and
\* failed records in the store and autoRetry disabled.
C12_Witness ==
    \E r \in DOMAIN runs :
        /\ Run(r).fileIds = <<>>
        /\ Run(r).pc = "finally"
        /\ Len(Run(r).log) = 2
        /\ ~batchOptions.autoRetry
        /\ \E id \in DOMAIN files : files[id].status = "completed"
        /\ \E id \in DOMAIN files : files[id].status = "error"

\* The step is the second of two processAll calls made in a row without
\* awaiting the first.
IsSecondCall == calls = 1 /\ calls' = 2

\* C13 as stated: whatever the store holds, the second of two processAll
\* calls made without awaiting the first starts no run, changes no record
\* and emits no event.
C13_SecondCallWithoutEffect ==
    [][IsSecondCall =>
          /\ files' = files
          /\ runs' = runs
          /\ isProcessing' = isProcessing]_vars

\* C13 amended: at most one run is active, and the second call changes no
\* record.  When the first call found an eligible record its run is in
\* flight and the second call starts no run and emits no event.  When the
\* first call found none it has already finished on the empty path, and the
\* second call is a run of its own on the empty path, which emits one
\* onProgressUpdate and one onProcessingComplete.
C13_SecondCallBlockedInFlight ==
    /\ [](Len(runs) <= 1)
    /\ [][IsSecondCall =>
            /\ files' = files
            /\ runs # <<>> => (runs' = runs /\ isProcessing' = isProcessing)
            /\ runs = <<>> =>
                  /\ NoneEligible(files)
                  /\ Len(runs') = 1
                  /\ runs'[1].fileIds = <<>>
                  /\ runs'[1].log = <<>>]_vars
    /\ [](\A r \in DOMAIN runs :
            (calls = 2 /\ Run(r).fileIds = <<>> /\ Run(r).pc = "finally") =>
                Kinds(Run(r)) = {"onProgressUpdate", "onProcessingComplete"}
                    /\ Len(Run(r).log) = 2)

\* The second call has returned at the guard: the run of the first call is
\* suspended after its first window, records processed and records waiting.
C13_Witness ==
    /\ calls = 2
    /\ Idle
    /\ \E r \in DOMAIN runs :
           /\ Run(r).pc = "await"
           /\ Run(r).attempted # {}
           /\ Len(Run(r).fileIds) > Len(Run(r).batch)

\* The number of events of this kind the run has emitted for the record.
EventCount(run, kind, id) ==
    Cardinality({n \in DOMAIN run.log : run.log[n].kind = kind /\ run.log[n].id = id})

\* C14: with stopOnError disabled, when a run ends (no retryFailedFiles call
\* having been made during it) every eligible record has been attempted and
\* is completed or in error, a failed record holds a non-empty message and
\* has one onFileFailed event, a converted record has one onFileProcessed
\* event and no onFileFailed, no record of the store is pending or
\* processing, and the run has ended with onProcessingComplete and without
\* onProcessingError.
C14_FailureIsolated ==
    \A r \in DOMAIN runs :
        (Run(r).pc = "finally" /\ ~batchOptions.stopOnError /\ ~Run(r).reRetried) =>
            /\ ~Run(r).rejected
            /\ \A p \in DOMAIN Run(r).fileIds :
                   LET id == Run(r).fileIds[p]
                   IN  /\ id \in Run(r).attempted
                       /\ Terminal(id)
                       /\ files[id].status = "error" =>
                              /\ files[id].error \notin {Undefined, ""}
                              /\ EventCount(Run(r), "onFileFailed", id) = 1
                              /\ EventCount(Run(r), "onFileProcessed", id) = 0
                       /\ files[id].status = "completed" =>
                              /\ EventCount(Run(r), "onFileFailed", id) = 0
                              /\ EventCount(Run(r), "onFileProcessed", id) = 1
            /\ \A id \in DOMAIN files : Terminal(id)
            /\ Run(r).log # <<>>
            /\ Run(r).log[Len(Run(r).log)].kind = "onProcessingComplete"
            /\ "onProcessingError" \notin Kinds(Run(r))

\* A run with stopOnError disabled has ended: the record of its first window
\* has failed and the record of its second window was converted after it.
C14_Witness ==
    \E r \in DOMAIN runs :
        /\ Run(r).pc = "finally"
        /\ ~batchOptions.stopOnError /\ ~Run(r).reRetried
        /\ batchOptions.maxConcurrent = 1
        /\ Len(Run(r).fileIds) >= 2
        /\ files[Run(r).fileIds[1]].status = "error"
        /\ files[Run(r).fileIds[2]].status = "completed"

\* The input files of the model that are HTML files by name (.html or .htm
\* in any case) or by media type.
IsHtmlFile(file) ==
    \/ file.name.ext \in {".html", ".HTM"}
    \/ file.type = "Text/HTML; charset=utf-8"

\* C15: addFiles registers exactly the HTML files of its list, in input
\* order; the returned list and the onFileAdded events are the registered
\* records; each is new in the store, pending, with empty converted content
\* and no error; the records already stored are untouched and totalFiles
\* grows by the number of registered files.
C15_AddFilesRegistersHtml ==
    [][output'.op = "addFiles" =>
          LET returned == output'.returned
              html == SelectSeq(output'.list, IsHtmlFile)
          IN  /\ Len(returned) = Len(html)
              /\ Len(output'.events) = Len(html)
              /\ \A k \in DOMAIN returned :
                     /\ returned[k].name = html[k].name
                     /\ returned[k].record.originalContent = html[k].text
                     /\ returned[k].record.status = "pending"
                     /\ returned[k].record.markdownContent = ""
                     /\ returned[k].record.error = Undefined
                     /\ returned[k].id \notin DOMAIN files
                     /\ returned[k].id \in DOMAIN files'
                     /\ files'[returned[k].id] = returned[k].record
                     /\ output'.events[k].kind = "onFileAdded"
                     /\ output'.events[k].id = returned[k].id
                     /\ \A m \in DOMAIN returned : m < k => returned[m].id < returned[k].id
              /\ DOMAIN files' = DOMAIN files \cup {returned[k].id : k \in DOMAIN returned}
              /\ \A id \in DOMAIN files : files'[id] = files[id]
              /\ Cardinality(DOMAIN files') = State.totalFiles + Len(html)]_vars

\* addFiles has returned one record for a list of two files, the first not
\* an HTML file, the second an HTML file by its upper-case extension only,
\* beside a record an earlier run has completed.
C15_Witness ==
    /\ output.op = "addFiles"
    /\ Len(output.list) = 2
    /\ ~IsHtmlFile(output.list[1])
    /\ output.list[2].name.ext = ".HTM" /\ output.list[2].type = "text/plain"
    /\ Len(output.returned) = 1
    /\ \E id \in DOMAIN files : files[id].status = "completed"

\* The call that has returned is a ZIP export whose archive was generated.
ZipGenerated ==
    output.op \in {"downloadZip", "downloadSelectedAsZip"} /\ output.generated

\* The places of the given list whose record is completed and, for the
\* selected export, selected.
WantedPlaces ==
    {k \in DOMAIN output.files :
        /\ output.files[k].status = "completed"
        /\ output.op = "downloadSelectedAsZip" => output.files[k].id \in output.selectedIds}

\* The entry name the export gives to the record at place k of the given
\* list: its index is its place among the records the export works on.
EntryName(k) ==
    LET index == IF output.op = "downloadSelectedAsZip"
                 THEN Cardinality({m \in 1..(k - 1) : output.files[m].id \in output.selectedIds})
                 ELSE k - 1
    IN  GetMarkdownFileName(output.files[k].name, output.convention, index,
                            output.times[index + 1])

\* C16 as stated, already for the lists whose completed records all hold
\* content: the archive holds as many entries as there are completed (and
\* selected) records in the list.
C16_OneEntryPerCompleted ==
    (ZipGenerated /\ \A k \in WantedPlaces : output.files[k].markdownContent # "") =>
        Cardinality(DOMAIN output.archive) = Cardinality(WantedPlaces)

\* C16, what holds: the archive holds no entry but those named after a
\* completed (and selected) record with non-empty content, each with the
\* content of the last such record of that name; when these records have
\* non-empty content and pairwise different entry names there is one entry
\* for each; with no such record the archive is empty.
C16_EntriesOfArchive ==
    ZipGenerated =>
        LET exported == {k \in WantedPlaces : output.files[k].markdownContent # ""}
        IN  /\ DOMAIN output.archive = {EntryName(k) : k \in exported}
            /\ \A k \in exported :
                   (\A m \in exported : m > k => EntryName(m) # EntryName(k)) =>
                       output.archive[EntryName(k)] = output.files[k].markdownContent
            /\ (/\ exported = WantedPlaces
                /\ \A k, m \in exported : k # m => EntryName(k) # EntryName(m)) =>
                   Cardinality(DOMAIN output.archive) = Cardinality(WantedPlaces)
            /\ WantedPlaces = {} => output.archive = EmptyZip

\* An archive of one entry for two completed records with content: both are
\* named report.md under the 'original' convention.
C16_Witness ==
    /\ ZipGenerated
    /\ output.convention = "original"
    /\ Cardinality(WantedPlaces) = 2
    /\ \A k \in WantedPlaces : output.files[k].markdownContent # ""
    /\ DOMAIN output.archive = {"report.md"}

\* A downloadMultipleFiles call has returned without an error.
SavedAll == output.op = "downloadMultipleFiles" /\ output.error = "none"

NamedHtml ==
    /\ output.op = "getMarkdownFileName"
    /\ output.originalName \in {"report.html", "report.HTM"}

\* C18: getMarkdownFileName replaces a trailing .html/.htm of the original
\* name by .md: under 'original' the result is the base name and .md, under
\* 'indexed' the base name, '_', the index zero-padded to 3 digits and .md
\* (report_000.md for report.html and index 0), and under both conventions
\* the result is the same whatever the clock reads.
C18_MarkdownFileName ==
    NamedHtml =>
        /\ output.convention = "original" => output.result = "report.md"
        /\ (output.convention = "indexed" /\ output.index \in 0..MaxExport) =>
               /\ output.result = "report_" \o PadStart3(ToString(output.index)) \o ".md"
               /\ Len(output.result) = Len("report_000.md")
               /\ output.index = 0 => output.result = "report_000.md"
               /\ output.index = 1 => output.result = "report_001.md"
        /\ output.convention \in {"original", "indexed"} =>
               \A now \in Clock :
                   GetMarkdownFileName(output.originalName, output.convention,
                                       output.index, now) = output.result

\* getMarkdownFileName("report.html", "indexed", 0) has returned
\* report_000.md.
C18_Witness ==
    /\ NamedHtml
    /\ output.originalName = "report.html"
    /\ output.convention = "indexed"
    /\ output.index = 0
    /\ output.result = "report_000.md"

\* A ZIP export has ended in which zip.generateAsync threw.
ArchiveCreationFailed ==
    /\ output.op \in {"downloadZip", "downloadSelectedAsZip"}
    /\ output.generateThrows # NothingThrown

\* C19 as stated: a failure of the archive creation reaches the caller as
\* the error "Failed to create archive: <cause>", without a save call.
C19_FailedToCreateArchive ==
    ArchiveCreationFailed =>
        /\ output.error = "Failed to create archive: " \o Cause(output.generateThrows)
        /\ output.saveCalls = <<>>

\* C19 amended: a failure of the archive creation reaches the caller as the
\* one error "Failed to create ZIP file: <cause>", the cause being the
\* message of the Error thrown, or "Unknown error" for a value that is not
\* an Error, and no save call is made for that export.
C19_FailedToCreateZipFile ==
    ArchiveCreationFailed =>
        /\ output.error =
               "Failed to create ZIP file: " \o
                   (IF output.generateThrows.kind = "Error"
                    THEN output.generateThrows.message ELSE "Unknown error")
        /\ output.saveCalls = <<>>
        /\ output.archive = EmptyZip

\* zip.generateAsync has thrown an Error on a list with a completed record,
\* and the export ended with the wrapped message.
C19_Witness ==
    /\ ArchiveCreationFailed
    /\ output.generateThrows.kind = "Error"
    /\ \E k \in DOMAIN output.files : Exported(output.files[k])
    /\ output.error = "Failed to create ZIP file: out of memory"
    /\ output.saveCalls = <<>>

\* The changes of status the step makes on the records it keeps.
StatusChanges ==
    {<<files[id].status, files'[id].status>> :
        id \in {i \in DOMAIN files \cap DOMAIN files' : files[i].status # files'[i].status}}

IdsOf(s) == {s[n] : n \in DOMAIN s}

\* The step starts a run.
RunStarts == Len(runs') = Len(runs) + 1

\* C21: the ids a processAll run is started with are those of the records
\* that are pending at that moment, and of the records in error if and only
\* if autoRetry is enabled; the run attempts no other record, and attempts
\* each of them when it is not aborted; with autoRetry disabled a record in
\* error is left as it is by every step of the run.
C21_AttemptsEligible ==
    /\ [][RunStarts =>
            IdsOf(runs'[Len(runs')].fileIds) =
                {id \in DOMAIN files' :
                    \/ files'[id].status = "pending"
                    \/ files'[id].status = "error" /\ batchOptions.autoRetry}]_vars
    /\ [](\A r \in DOMAIN runs :
            /\ Run(r).attempted \subseteq IdsOf(Run(r).fileIds)
            /\ (Run(r).pc = "finally" /\ ~Run(r).rejected) =>
                   Run(r).attempted = IdsOf(Run(r).fileIds))
    /\ [][\A id \in DOMAIN files :
            (~NoRun /\ ~batchOptions.autoRetry /\ files[id].status = "error") =>
                \/ id \in DOMAIN files' /\ files'[id] = files[id]
                \/ RetryFailedFiles]_vars

\* A run with autoRetry disabled has ended: it has attempted a record, and
\* a record that was in error when it started holds its status and message.
C21_Witness ==
    \E r \in DOMAIN runs :
        /\ Run(r).pc = "finally"
        /\ ~batchOptions.autoRetry
        /\ ~Run(r).reRetried /\ ~Run(r).viaRetry
        /\ Run(r).attempted # {}
        /\ \E id \in DOMAIN files \ IdsOf(Run(r).fileIds) :
               files[id].status = "error" /\ files[id].error = ConvertErrorMessage

\* The events of the run that carry the record: onFileProcessed, onFileFailed.
FileEventsOf(run, id) ==
    {n \in DOMAIN run.log :
        run.log[n].kind \in {"onFileProcessed", "onFileFailed"} /\ run.log[n].id = id}

\* C22: in a processAll run a record whose processFile call has returned
\* has caused exactly one record event, and a record not attempted yet
\* none; onFileProcessed is handed the record completed with its converted
\* content, onFileFailed the record in error with the message it carries,
\* so no handler sees the record pending or processing; and the event is
\* the one of the record's final status.
C22_OneEventAfterUpdate ==
    \A r \in DOMAIN runs :
        /\ \A id \in DOMAIN files :
               Cardinality(FileEventsOf(Run(r), id)) =
                   IF Finished(Run(r), id) THEN 1 ELSE 0
        /\ \A n \in DOMAIN Run(r).log :
               LET e == Run(r).log[n]
               IN  /\ e.kind = "onFileProcessed" =>
                          /\ e.status = "completed"
                          /\ e.id \in DOMAIN files
                          /\ e.markdownContent =
                                 ConvertHtmlToMarkdown(
                                     SanitizeHTML(files[e.id].originalContent)).value
                   /\ e.kind = "onFileFailed" =>
                          /\ e.status = "error"
                          /\ e.error = e.msg
                          /\ e.msg = ConvertErrorMessage
        /\ ~Run(r).reRetried =>
               \A id \in DOMAIN files :
                   Finished(Run(r), id) =>
                       /\ files[id].status = "completed" =>
                              EventCount(Run(r), "onFileProcessed", id) = 1
                       /\ files[id].status = "error" =>
                              /\ EventCount(Run(r), "onFileFailed", id) = 1
                              /\ \A n \in FileEventsOf(Run(r), id) :
                                     Run(r).log[n].msg = files[id].error

\* A run has ended after an onFileProcessed event for a record it converted
\* and an onFileFailed event for a record that failed.
C22_Witness ==
    \E r \in DOMAIN runs :
        /\ Run(r).pc = "finally"
        /\ \E a, b \in Run(r).attempted :
               /\ files[a].status = "completed" /\ files[a].markdownContent = "# T"
               /\ EventCount(Run(r), "onFileProcessed", a) = 1
               /\ files[b].status = "error"
               /\ EventCount(Run(r), "onFileFailed", b) = 1

\* The number of events of this kind the run has emitted.
KindCount(run, kind) ==
    Cardinality({n \in DOMAIN run.log : run.log[n].kind = kind})

\* ceil(n / k) for n >= 0 and k >= 1
CeilDiv(n, k) == (n + k - 1) \div k

\* The step emits an onProgressUpdate event of run r after a window.
EmitsProgress(r) ==
    /\ r \in DOMAIN runs /\ r \in DOMAIN runs'
    /\ runs[r].pc = "await"
    /\ KindCount(runs'[r], "onProgressUpdate") = KindCount(runs[r], "onProgressUpdate") + 1

\* C23: a run over n >= 1 eligible records with maxConcurrent = k that is
\* not aborted has emitted ceil(n / k) onProgressUpdate events when it ends,
\* and then onProcessingComplete once, as its last event; each progress
\* event after a window comes when processFile has returned for every record
\* of the window, the records being completed or in error; and every run
\* that ends has emitted exactly one of onProcessingComplete and
\* onProcessingError.
C23_EventsOfRun ==
    /\ [](\A r \in DOMAIN runs :
            Run(r).pc = "finally" =>
                /\ KindCount(Run(r), "onProcessingComplete")
                       + KindCount(Run(r), "onProcessingError") = 1
                /\ Run(r).rejected <=> KindCount(Run(r), "onProcessingError") = 1
                /\ Run(r).log[Len(Run(r).log)].kind \in
                       {"onProcessingComplete", "onProcessingError"}
                /\ (~Run(r).rejected /\ Len(Run(r).fileIds) >= 1) =>
                       /\ KindCount(Run(r), "onProgressUpdate") =
                              CeilDiv(Len(Run(r).fileIds), batchOptions.maxConcurrent)
                       /\ Run(r).log[Len(Run(r).log) - 1].kind = "onProgressUpdate"
                       /\ Run(r).log[Len(Run(r).log)].kind = "onProcessingComplete")
    /\ [][\A r \in DOMAIN runs :
            EmitsProgress(r) =>
                \A n \in DOMAIN runs[r].batch :
                    /\ Finished(runs[r], runs[r].batch[n])
                    /\ ~runs[r].reRetried => Terminal(runs[r].batch[n])]_vars

\* A run over three records with maxConcurrent = 2 has ended, not aborted,
\* with two progress events.
C23_Witness ==
    \E r \in DOMAIN runs :
        /\ Run(r).pc = "finally"
        /\ ~Run(r).rejected
        /\ Len(Run(r).fileIds) = 3
        /\ batchOptions.maxConcurrent = 2
        /\ KindCount(Run(r), "onProgressUpdate") = 2
        /\ KindCount(Run(r), "onProcessingComplete") = 1

\* The places of fileIds in the window that rejected.
FailedWindow(run) ==
    {p \in DOMAIN run.fileIds :
        run.failedAt < p /\ p <= run.failedAt + batchOptions.maxConcurrent}

\* C24: with stopOnError enabled, once the window in which a record failed
\* has been dispatched, every record of that window has been attempted and
\* is completed or in error, the records listed after the failing one
\* included, and when the run has been aborted the attempted records are
\* those of the windows up to that one: only later windows are left out.
C24_WindowOfFailureCompletes ==
    \A r \in DOMAIN runs :
        (Run(r).rejected /\ batchOptions.stopOnError
            /\ Run(r).pc \in {"await", "catch", "finally"}) =>
            /\ \A p \in FailedWindow(Run(r)) :
                   /\ Finished(Run(r), Run(r).fileIds[p])
                   /\ ~Run(r).reRetried => Terminal(Run(r).fileIds[p])
            /\ Run(r).attempted =
                   {Run(r).fileIds[p] : p \in DOMAIN Run(r).fileIds \ LaterPlaces(Run(r))}

\* A run under stopOnError with maxConcurrent = 2 has been aborted: the
\* first record of its first window failed, the second was converted after
\* it, and the record of the second window was not attempted.
C24_Witness ==
    \E r \in DOMAIN runs :
        /\ Run(r).pc = "finally"
        /\ Run(r).rejected /\ batchOptions.stopOnError
        /\ batchOptions.maxConcurrent = 2
        /\ Len(Run(r).fileIds) = 3
        /\ files[Run(r).fileIds[1]].status = "error"
        /\ files[Run(r).fileIds[2]].status = "completed"
        /\ Run(r).fileIds[3] \notin Run(r).attempted

\* C25 as stated: also with clearAll called while a run is suspended, at
\* most one processAll run is active at any time, and isProcessing is true
\* while a run that records are still waiting for has started and not
\* finished.
C25_NoOverlapAfterClear ==
    /\ Len(runs) <= 1
    /\ (\E r \in DOMAIN runs : \E id \in IdsOf(Run(r).fileIds) :
            id \in DOMAIN files /\ files[id].status = "pending") => isProcessing

\* Two runs are active at once: the earlier is suspended between two
\* windows, the later, started after a clearAll, is converting a record.
C25_Witness ==
    /\ Len(runs) = 2
    /\ Run(1).pc = "await"
    /\ Len(Run(1).fileIds) > Len(Run(1).batch)
    /\ Run(2).pc = "convert"

\* C26 as stated, for runs that stopOnError does not abort:
\* retryFailedFiles() with autoRetry disabled and processAll() with
\* autoRetry enabled, from the same store with no run in flight and with
\* the same conversion function, leave every record with the same status,
\* the same converted content and the same error field.
C26_RetryEquivalentToAutoRetry ==
    (BothEnded /\ ~batchOptions.stopOnError) =>
        /\ DOMAIN files = DOMAIN output.first
        /\ \A id \in DOMAIN files :
               /\ files[id].status = output.first[id].status
               /\ files[id].markdownContent = output.first[id].markdownContent
               /\ files[id].error = output.first[id].error

\* What holds: the two leave every record with the same converted content,
\* and with the same status and error field but for the records that were
\* in error at the start and either are completed at the end, which keep
\* their earlier message under autoRetry and have none after
\* retryFailedFiles, or were left unattempted by an abort under
\* stopOnError, which are still in error with their message under
\* autoRetry and pending without message after retryFailedFiles.
C26_SameStatusAndContent ==
    BothEnded =>
        /\ DOMAIN files = DOMAIN output.first
        /\ \A id \in DOMAIN files :
               /\ files[id].markdownContent = output.first[id].markdownContent
               /\ \/ /\ files[id].status = output.first[id].status
                     /\ files[id].error = output.first[id].error
                  \/ /\ output.start[id].status = "error"
                     /\ files[id].status = "completed"
                     /\ output.first[id].status = "completed"
                     /\ files[id].error = output.start[id].error
                     /\ output.first[id].error = Undefined
                  \/ /\ batchOptions.stopOnError
                     /\ output.start[id].status = "error"
                     /\ files[id] = output.start[id]
                     /\ output.first[id].status = "pending"
                     /\ output.first[id].error = Undefined

\* Both runs have ended on a store of two records in error, one of them
\* with its content fixed: both leave it completed, the other in error.
C26_Witness ==
    /\ BothEnded
    /\ \E a, b \in DOMAIN files :
           /\ output.start[a].status = "error" /\ output.start[b].status = "error"
           /\ files[a].status = "completed" /\ output.first[a].status = "completed"
           /\ files[b].status = "error" /\ output.first[b].status = "error"

\* The fields of a record that registration sets for good.
Registration(file) ==
    [id |-> file.id, name |-> file.name, originalContent |-> file.originalContent,
     size |-> file.size, complexity |-> file.complexity, createdAt |-> file.createdAt]

\* The step is the processFile call of a run for this record.
ProcessFileOf(id) ==
    \E r \in DOMAIN runs :
        /\ cur = r
        /\ runs[r].pc \in {"file", "convert"}
        /\ runs[r].batch[runs[r].j] = id
        /\ RunStep(r)

\* C27: a step of processAll, processFile or retryFailedFiles adds and
\* removes no record and leaves the id, name, original content, size,
\* complexity metrics and creation time of every record as they are; a
\* record it changes is the record processFile is attempting or a record in
\* error that retryFailedFiles resets to pending without error.
C27_FrameOfProcessing ==
    [][(ProcessAll \/ RetryFailedFiles \/ \E r \in DOMAIN runs : RunStep(r)) =>
          /\ DOMAIN files' = DOMAIN files
          /\ \A id \in DOMAIN files :
                 /\ Registration(files'[id]) = Registration(files[id])
                 /\ files'[id].id = id
                 /\ files'[id] # files[id] =>
                        \/ ProcessFileOf(id)
                        \/ /\ RetryFailedFiles
                           /\ files[id].status = "error"
                           /\ files'[id] = [files[id] EXCEPT !.status = "pending",
                                                             !.error = Undefined]]_vars

\* Between two windows of a run: a record has failed and holds what it was
\* registered with, and a record of a later window is as it was registered.
C27_Witness ==
    \E r \in DOMAIN runs :
        /\ Run(r).pc = "await"
        /\ \E a, b \in DOMAIN files :
               /\ files[a].status = "error"
               /\ files[a].originalContent = "<bad>"
               /\ files[a].size = 5 /\ files[a].createdAt = a
               /\ files[a].name = [stem |-> "a", ext |-> ".html"]
               /\ b \notin Run(r).attempted
               /\ \E file \in Uploads : files[b] = CreateProcessedFile(file, b)

\* The records registered after the start of the run.
RegisteredInFlight(run) == {id \in DOMAIN files : id >= run.firstNew}

\* C28: a record registered by addFiles while a run is in flight is not
\* attempted by that run: up to the end of the run, after
\* onProcessingComplete, it is pending as it was registered and the run has
\* emitted no event for it; a record becomes processing only in a run that
\* started after its registration, and a run that starts takes every
\* pending record.
C28_AddedInFlightNotAttempted ==
    /\ [](\A r \in DOMAIN runs :
            \A id \in RegisteredInFlight(Run(r)) :
                /\ id \notin Run(r).attempted
                /\ id \notin IdsOf(Run(r).fileIds)
                /\ files[id].status = "pending"
                /\ files[id].markdownContent = ""
                /\ FileEventsOf(Run(r), id) = {})
    /\ [][\A id \in DOMAIN files \cap DOMAIN files' :
            (files[id].status # "processing" /\ files'[id].status = "processing") =>
                \E r \in DOMAIN runs : cur = r /\ id < Run(r).firstNew]_vars
    /\ [][RunStarts =>
            \A id \in DOMAIN files' :
                files'[id].status = "pending" => id \in IdsOf(runs'[Len(runs')].fileIds)]_vars

\* A run has emitted onProcessingComplete after attempting its records; a
\* record registered between its two windows is pending.
C28_Witness ==
    \E r \in DOMAIN runs :
        /\ Run(r).pc = "finally"
        /\ Run(r).log[Len(Run(r).log)].kind = "onProcessingComplete"
        /\ Cardinality(Run(r).attempted) = 2
        /\ batchOptions.maxConcurrent = 1
        /\ RegisteredInFlight(Run(r)) # {}
        /\ \A id \in RegisteredInFlight(Run(r)) : files[id].status = "pending"

\* C29 as stated: every processAll run ends, its flag cleared, whatever
\* maxConcurrent updateBatchOptions was given, zero and negative numbers
\* included.
C29_ProcessAllTerminates == isProcessing ~> ~isProcessing

\* What holds: a run ends when maxConcurrent is positive or when no record
\* is eligible.
C29_TerminatesForPositive ==
    (isProcessing /\ (batchOptions.maxConcurrent >= 1
                        \/ \A r \in DOMAIN runs : Run(r).fileIds = <<>>))
        ~> ~isProcessing

\* A run with maxConcurrent = 0 is suspended once more after three empty
\* windows and three progress events, its records pending as at the start.
C29_Witness ==
    \E r \in DOMAIN runs :
        /\ batchOptions.maxConcurrent = 0
        /\ Run(r).pc = "await"
        /\ Run(r).i = 0
        /\ Run(r).attempted = {}
        /\ Run(r).fileIds # <<>>
        /\ KindCount(Run(r), "onProgressUpdate") >= 3

\* The outcome of the conversion of the record's content.
ConversionOf(id) == ConvertHtmlToMarkdown(SanitizeHTML(files[id].originalContent))

\* C30 as stated: whatever the event handlers do, a record whose
\* processFile call has returned is completed with its converted content
\* when its conversion succeeded.
C30_StatusFollowsConversion ==
    \A r \in DOMAIN runs :
        \A id \in DOMAIN files :
            (Finished(Run(r), id) /\ ~Run(r).reRetried /\ ConversionOf(id).ok) =>
                /\ files[id].status = "completed"
                /\ files[id].markdownContent = ConversionOf(id).value
                /\ files[id].error = Undefined

\* What holds: when the onFileProcessed handler returns normally, a record
\* whose processFile call has returned is completed with its converted
\* content if its conversion succeeded and in error with the converter's
\* message if it failed, whatever the other handlers do.
C30_StatusUnlessProcessedThrows ==
    \A r \in DOMAIN runs :
        \A id \in DOMAIN files :
            (Finished(Run(r), id) /\ ~Run(r).reRetried
                /\ "onFileProcessed" \notin throwing) =>
                IF ConversionOf(id).ok
                THEN /\ files[id].status = "completed"
                     /\ files[id].markdownContent = ConversionOf(id).value
                ELSE /\ files[id].status = "error"
                     /\ files[id].error = ConvertErrorMessage

\* The onFileProcessed handler has thrown for a record that was converted:
\* the record holds its converted content and is in error with the
\* handler's message, and onFileFailed was emitted for it as well.
C30_Witness ==
    \E r \in DOMAIN runs :
        \E id \in Run(r).attempted :
            /\ Finished(Run(r), id)
            /\ files[id].originalContent = "<h1>T</h1>"
            /\ files[id].markdownContent = "# T"
            /\ files[id].status = "error"
            /\ files[id].error = HandlerErrorMessage
            /\ EventCount(Run(r), "onFileProcessed", id) = 1
            /\ EventCount(Run(r), "onFileFailed", id) = 1

====
